---- MODULE Spec2Model ----
(***************************************************************************)
(* Model of the ai-tutor-server real-time chat relay:                      *)
(*   src/routes/chat.js   socketAuthMiddleware, setupChatHandlers,         *)
(*                        generateAIResponse                               *)
(*   src/server.js        io.use(socketAuthMiddleware), setupChatHandlers  *)
(* Every `await` of the handlers is a separate step, so that handlers of   *)
(* different events interleave the way the Node event loop lets them.      *)
(***************************************************************************)
EXTENDS Integers, Sequences, FiniteSets, TLC

\* ------------------------------------------------------------------ bounds
MaxConn == 3        \* sockets that may ever connect
MaxReq == 2         \* chat_message events that reach the insert
MaxChunks == 2      \* chunks one generation stream may yield
MaxSide == 1        \* typing / get_chat_history / rejected chat_message events
MaxSeed == 5        \* chat turns already stored when the server starts
MaxSolo == 1        \* submissions followed in the single-submission specifications
MaxChatConn == 2    \* sockets of the chat specification
MaxTyping == 2      \* typing events
MaxReg == 3         \* POST /api/auth/register requests

Conns == 1..MaxConn
ReqIds == 1..MaxReq
RegIds == 1..MaxReg
Users == {1, 2}

\* ------------------------------------------------------- values and texts
\* A JavaScript value as it arrives in an event payload.
Undef == [t |-> "undef"]
Num(n) == [t |-> "num", n |-> n]
Str(s) == [t |-> "str", s |-> s]
Null == [t |-> "null"]
Frac == [t |-> "frac"]     \* a number that is not an integer, such as 1.5

IsWhite(ch) == ch = " "

RECURSIVE TrimStart(_)
TrimStart(s) ==
    IF s = <<>> THEN <<>>
    ELSE IF IsWhite(Head(s)) THEN TrimStart(Tail(s)) ELSE s

RECURSIVE TrimEnd(_)
TrimEnd(s) ==
    IF s = <<>> THEN <<>>
    ELSE IF IsWhite(s[Len(s)]) THEN TrimEnd(SubSeq(s, 1, Len(s) - 1)) ELSE s

Trim_Nothing(s) == s

\* String.prototype.trim
Trim(s) == TrimEnd(TrimStart(s))

\* JavaScript truthiness of a payload value
Truthy(v) ==
    CASE v.t = "undef" -> FALSE
      [] v.t = "null" -> FALSE
      [] v.t = "num" -> v.n # 0
      [] v.t = "str" -> v.s # <<>>
      [] OTHER -> TRUE

RECURSIVE Reverse(_)
Reverse(s) == IF s = <<>> THEN <<>> ELSE Append(Reverse(Tail(s)), Head(s))

\* ------------------------------------------------- socketAuthMiddleware
JWT_SECRET == "server-secret"

\* Handshake tokens: none (undefined or ""), a truthy non-string, or a string
\* that is a JWT (or garbage) with an optional "Bearer " prefix.
NoToken == [k |-> "none"]
NonStringToken == [k |-> "nonstr"]
Jwt(bearer, wellformed, secret, expired, uid) ==
    [k |-> "jwt", bearer |-> bearer, wellformed |-> wellformed,
     secret |-> secret, expired |-> expired, userId |-> uid]

ValidToken(u) == Jwt(FALSE, TRUE, JWT_SECRET, FALSE, u)

Tokens ==
    {NoToken, NonStringToken,
     ValidToken(1), ValidToken(2),
     Jwt(TRUE, TRUE, JWT_SECRET, FALSE, 1),
     Jwt(FALSE, FALSE, JWT_SECRET, FALSE, 1),
     Jwt(FALSE, TRUE, "other-secret", FALSE, 1),
     Jwt(FALSE, TRUE, JWT_SECRET, TRUE, 2)}

\* the token in the auth payload, in the query string, or in both
Handshakes ==
    {[auth |-> t, query |-> NoToken] : t \in Tokens}
        \cup {[auth |-> NoToken, query |-> t] : t \in Tokens}
        \cup {[auth |-> t, query |-> ValidToken(2)] :
                 t \in {ValidToken(1), NonStringToken, Jwt(FALSE, TRUE, JWT_SECRET, TRUE, 2)}}

\* handshakes of the specifications that are not about authentication
PlainHandshakes ==
    {[auth |-> ValidToken(1), query |-> NoToken],
     [auth |-> NoToken, query |-> ValidToken(2)],
     [auth |-> NoToken, query |-> NoToken]}

\* socket.handshake.auth?.token || socket.handshake.query?.token
HandshakeToken(hs) == IF hs.auth.k # "none" THEN hs.auth ELSE hs.query

\* token.replace("Bearer ", "")
CleanToken(tok) == [tok EXCEPT !.bearer = FALSE]

JwtVerify_IgnoreExpiry(tok, secret) ==
    IF tok.bearer \/ ~tok.wellformed \/ tok.secret # secret
        THEN [ok |-> FALSE, name |-> "JsonWebTokenError", userId |-> 0]
    ELSE [ok |-> TRUE, name |-> "", userId |-> tok.userId]

\* jwt.verify(cleanToken, JWT_SECRET): the decoded payload, or the name of
\* the error it throws.  The signature is checked before the expiry.
JwtVerify(tok, secret) ==
    IF tok.bearer \/ ~tok.wellformed
        THEN [ok |-> FALSE, name |-> "JsonWebTokenError", userId |-> 0]
    ELSE IF tok.secret # secret
        THEN [ok |-> FALSE, name |-> "JsonWebTokenError", userId |-> 0]
    ELSE IF tok.expired
        THEN [ok |-> FALSE, name |-> "TokenExpiredError", userId |-> 0]
    ELSE [ok |-> TRUE, name |-> "", userId |-> tok.userId]

AuthOk(uid) == [ok |-> TRUE, userId |-> uid, type |-> "", message |-> ""]
AuthErr(msg) == [ok |-> FALSE, userId |-> 0, type |-> "AUTH_ERROR", message |-> msg]

\* The outcome of the middleware: next() with socket.userId set, or
\* next(error) with error.data = {type, message}.
socketAuthMiddleware(hs) ==
    LET token == HandshakeToken(hs) IN
    IF token.k = "none" THEN AuthErr("No token provided")
    ELSE IF token.k = "nonstr" THEN AuthErr("Authentication failed")
    ELSE LET decoded == JwtVerify(CleanToken(token), JWT_SECRET) IN
         IF decoded.ok THEN AuthOk(decoded.userId)
         ELSE IF decoded.name = "JsonWebTokenError" THEN AuthErr("Invalid token")
         ELSE IF decoded.name = "TokenExpiredError" THEN AuthErr("Token expired")
         ELSE AuthErr("Authentication failed")

\* ------------------------------------------------------------- the store
\* goals and milestones are only read by this server
GoalsTable ==
    {[id |-> 1, user_id |-> 1, title |-> "g1", description |-> "d1",
      status |-> "active", difficulty_level |-> "easy", weeks |-> 4],
     [id |-> 2, user_id |-> 2, title |-> "g2", description |-> "d2",
      status |-> "completed", difficulty_level |-> "hard", weeks |-> 8]}

MilestonesTable ==
    {[id |-> 1, goal_id |-> 1, title |-> "m1", completed |-> TRUE, milestone_order |-> 1],
     [id |-> 2, goal_id |-> 1, title |-> "m2", completed |-> FALSE, milestone_order |-> 2],
     [id |-> 3, goal_id |-> 2, title |-> "n1", completed |-> FALSE, milestone_order |-> 1]}

GoalIds == {0, 1, 2}     \* 0 stands for an absent goalId (null in the row)

fallbackResponse == <<"F">>

VARIABLES
    conn,      \* per socket: st, userId (socket.userId), hs, err (error.data)
    rooms,     \* io rooms: user id -> sockets joined to `user_${id}`
    store,     \* chat_messages rows, in insertion order
    nextId,    \* the serial of chat_messages.id
    clock,     \* NOW() of the latest insert
    h,         \* per accepted chat_message: its handler / generation (pc, the
               \* locals of generateAIResponse, caught: line 282 was entered)
    out,       \* per socket: the events emitted to it, in order
    side,      \* number of typing, history and rejected events so far
    crashed,   \* an exception escaped a listener: the process is gone
    users,     \* users rows (id, email), in insertion order
    usersUnique,   \* the schema of users (not in this repository) declares
               \* email UNIQUE, or does not
    reg        \* per register request: its handler (pc, email) and its response

httpVars == <<users, usersUnique, reg>>

vars == <<conn, rooms, store, nextId, clock, h, out, side, crashed, users, usersUnique, reg>>

NoCtx == [kind |-> "none"]     \* personalizedContext = ""

IdleConn == [st |-> "Idle", userId |-> 0, hs |-> [auth |-> NoToken, query |-> NoToken],
             err |-> AuthOk(0)]
FreeH == [pc |-> "free", conn |-> 0, message |-> <<>>, goalId |-> 0,
          recent |-> <<>>, ctx |-> NoCtx, full |-> <<>>, n |-> 0, caught |-> FALSE]

NoResponse == [status |-> 0, error |-> "", token |-> NoToken, user |-> [id |-> 0, email |-> ""]]
FreeReg == [pc |-> "free", email |-> "", res |-> NoResponse]

\* no user yet, no register request yet
HttpIdle ==
    /\ users = <<>>
    /\ reg = [q \in RegIds |-> FreeReg]

Init ==
    /\ conn = [c \in Conns |-> IdleConn]
    /\ rooms = [u \in Users |-> {}]
    /\ store = <<>>
    /\ nextId = 1
    /\ clock = 1
    /\ h = [r \in ReqIds |-> FreeH]
    /\ out = [c \in Conns |-> <<>>]
    /\ side = 0
    /\ crashed = FALSE
    /\ HttpIdle
    /\ usersUnique = TRUE

\* socket.emit(ev, p) on socket c.  `req` names the chat_message event the
\* emission belongs to (0: none) and `live` whether the socket was still
\* connected, i.e. whether the packet was written or silently dropped.
Event(c, ev, req, p) == [ev |-> ev, req |-> req, live |-> conn[c].st = "Active", p |-> p]
Emit(o, c, ev, req, p) == [o EXCEPT ![c] = Append(@, Event(c, ev, req, p))]

\* ---------------------------------------------------- connection life cycle
\* io.use(socketAuthMiddleware), then io.on("connection"): join the room of
\* the user and attach the listeners.  Sockets connect in the order 1, 2, ...
Connect(c, hs) ==
    /\ ~crashed
    /\ conn[c].st = "Idle"
    /\ \A d \in Conns : d < c => conn[d].st # "Idle"
    /\ LET res == socketAuthMiddleware(hs) IN
       IF res.ok
       THEN /\ conn' = [conn EXCEPT ![c] = [st |-> "Active", userId |-> res.userId,
                                            hs |-> hs, err |-> res]]
            /\ rooms' = [rooms EXCEPT ![res.userId] = @ \cup {c}]
       ELSE /\ conn' = [conn EXCEPT ![c] = [st |-> "Rejected", userId |-> 0,
                                            hs |-> hs, err |-> res]]
            /\ rooms' = rooms
    /\ UNCHANGED <<httpVars, store, nextId, clock, h, out, side, crashed>>

\* the socket closes: socket.io takes it out of its rooms and dispatches no
\* further event of it; the disconnect listener only logs
Disconnect(c) ==
    /\ ~crashed
    /\ conn[c].st = "Active"
    /\ conn' = [conn EXCEPT ![c].st = "Closed"]
    /\ rooms' = [u \in Users |-> rooms[u] \ {c}]
    /\ UNCHANGED <<httpVars, store, nextId, clock, h, out, side, crashed>>

\* listeners exist only on sockets that passed the middleware and are connected
Listening(c) == ~crashed /\ conn[c].st = "Active"

\* --------------------------------------------------- chat_message listener
MessageVals == {Undef, Num(7), Str(<<>>), Str(<<" ">>), Str(<<"a">>), Str(<<" ", "a">>)}
ChatPayloads ==
    {Undef} \cup {[t |-> "obj", message |-> m, goalId |-> g] : m \in MessageVals, g \in GoalIds}

\* what lines 37-42 decide: "throw" (TypeError, caught at line 65),
\* "empty" (the validation error) or "accept"
ChatMessageCheck(data) ==
    IF data.t = "undef" THEN "throw"
    ELSE IF ~Truthy(data.message) THEN "empty"
    ELSE IF data.message.t # "str" THEN "throw"
    ELSE IF Trim(data.message.s) = <<>> THEN "empty"
    ELSE "accept"

FreeReqs == {r \in ReqIds : h[r].pc = "free"}

ChatMessage(c, data) ==
    /\ Listening(c)
    /\ LET chk == ChatMessageCheck(data) IN
       IF chk = "accept"
       THEN /\ FreeReqs # {}
            /\ LET r == CHOOSE x \in FreeReqs : \A y \in FreeReqs : x <= y IN
               h' = [h EXCEPT ![r] = [FreeH EXCEPT !.pc = "insert_user", !.conn = c,
                                        !.message = data.message.s,
                                        !.goalId = data.goalId]]
            /\ UNCHANGED <<httpVars, out, side>>
       ELSE /\ side < MaxSide
            /\ side' = side + 1
            /\ out' = Emit(out, c, "error", 0,
                           IF chk = "empty" THEN "Message cannot be empty"
                           ELSE "Failed to process message")
            /\ h' = h
    /\ UNCHANGED <<httpVars, conn, rooms, store, nextId, clock, crashed>>

\* NOW() of an insert of request r: never before the latest insert; equal to
\* it only when that was an insert of another request (the two inserts of one
\* request are a second apart, line 63)
Timestamps(r) ==
    IF store # <<>> /\ store[Len(store)].req # r THEN {clock, clock + 1} ELSE {clock + 1}

NewRow_OtherUser(user, goal, msg, sender, ts, req) ==
    [id |-> nextId, user_id |-> 3 - user, goal_id |-> goal, message |-> msg,
     sender |-> sender, timestamp |-> ts, req |-> req]

\* INSERT ... RETURNING *: the row the store makes, id and timestamp included
NewRow(user, goal, msg, sender, ts, req) ==
    [id |-> nextId, user_id |-> user, goal_id |-> goal, message |-> msg,
     sender |-> sender, timestamp |-> ts, req |-> req]

ConfirmationOf_StaleId(row, msg, sender) ==
    [id |-> row.id - 1, message |-> msg, sender |-> sender, timestamp |-> row.timestamp]

\* lines 53-58, 275-280, 298-303: the chat_message event of a stored row
ConfirmationOf(row, msg, sender) ==
    [id |-> row.id, message |-> msg, sender |-> sender, timestamp |-> row.timestamp]

\* line 45 resolves: the row exists; confirm it (53) and arm the timer (61)
UserInsertDone(r) ==
    /\ ~crashed
    /\ h[r].pc = "insert_user"
    /\ \E ts \in Timestamps(r) :
         LET row == NewRow(conn[h[r].conn].userId, h[r].goalId, h[r].message,
                           "user", ts, r) IN
         /\ store' = Append(store, row)
         /\ nextId' = nextId + 1
         /\ clock' = ts
         /\ out' = Emit(out, h[r].conn, "chat_message", r,
                        ConfirmationOf(row, h[r].message, "user"))
    /\ h' = [h EXCEPT ![r].pc = "timer"]
    /\ UNCHANGED <<httpVars, conn, rooms, side, crashed>>

UserInsertFail_Silent(r) ==
    /\ ~crashed
    /\ h[r].pc = "insert_user"
    /\ h' = [h EXCEPT ![r].pc = "failed"]
    /\ UNCHANGED <<httpVars, conn, rooms, store, nextId, clock, out, side, crashed>>

UserInsertFail_StillGenerates(r) ==
    /\ ~crashed
    /\ h[r].pc = "insert_user"
    /\ out' = Emit(out, h[r].conn, "error", r, "Failed to process message")
    /\ h' = [h EXCEPT ![r].pc = "timer"]
    /\ UNCHANGED <<httpVars, conn, rooms, store, nextId, clock, side, crashed>>

\* line 45 rejects: caught at 65, the error event, nothing else
UserInsertFail(r) ==
    /\ ~crashed
    /\ h[r].pc = "insert_user"
    /\ out' = Emit(out, h[r].conn, "error", r, "Failed to process message")
    /\ h' = [h EXCEPT ![r].pc = "failed"]
    /\ \E burn \in {0, 1} : nextId' = nextId + burn
    /\ UNCHANGED <<httpVars, conn, rooms, store, clock, side, crashed>>

\* ------------------------------------------------------------ SQL queries
HistoryLimit == 10      \* LIMIT 10 of the chatHistory query
SliceLast == 10         \* recentMessages.slice(-10)
RecentGoalsLimit == 3   \* LIMIT 3 of the recent goals query
DefaultLimit == 50      \* limit = 50 of get_chat_history

Min(a, b) == IF a < b THEN a ELSE b
Max(a, b) == IF a > b THEN a ELSE b

RECURSIVE DescOrders(_, _)
\* ORDER BY timestamp DESC over the rows (indices of s) in S: every order
\* the store may return; rows of equal timestamp come in any order
DescOrders(s, S) ==
    IF S = {} THEN {<<>>}
    ELSE UNION {{<<s[i]>> \o t : t \in DescOrders(s, S \ {i})} :
                i \in {j \in S : \A k \in S : s[j].timestamp >= s[k].timestamp}}

\* LIMIT lim OFFSET off
LimitOffset(rows, lim, off) == SubSeq(rows, off + 1, Min(Len(rows), off + lim))

\* slice(-n)
LastN(rows, n) == SubSeq(rows, Max(1, Len(rows) - n + 1), Len(rows))

\* SELECT message, sender ... WHERE user_id = $1 ORDER BY timestamp DESC LIMIT 10
ChatHistoryQuery(s, user) ==
    {LimitOffset(o, HistoryLimit, 0) :
        o \in DescOrders(s, {i \in 1..Len(s) : s[i].user_id = user})}

\* chatHistory.rows.map(...)
RecentMessages(rows) ==
    [i \in 1..Len(rows) |->
        [role |-> IF rows[i].sender = "user" THEN "user" ELSE "assistant",
         content |-> rows[i].message]]

\* the conversationHistory of the prompt: one labelled line per message
ConversationHistory(recent) ==
    LET last == LastN(recent, SliceLast) IN
    [i \in 1..Len(last) |->
        [label |-> IF last[i].role = "user" THEN "User" ELSE "Assistant",
         content |-> last[i].content]]

GoalQuery_AnyOwner(goalId, user) == {g \in GoalsTable : g.id = goalId}

\* WHERE g.id = $1 AND g.user_id = $2
GoalQuery(goalId, user) == {g \in GoalsTable : g.id = goalId /\ g.user_id = user}

MilestonesOf(g) == {m \in MilestonesTable : m.goal_id = g.id}

\* lines 165-183: the context block of a goal row
GoalContext(g) ==
    LET ms == MilestonesOf(g)
        open == {m \in ms : ~m.completed}
    IN [kind |-> "goal", title |-> g.title, difficulty_level |-> g.difficulty_level,
        description |-> g.description, status |-> g.status,
        completed |-> Cardinality({m \in ms : m.completed}),
        total |-> Cardinality(ms), weeks |-> g.weeks,
        next |-> IF open = {} THEN ""
                 ELSE (CHOOSE m \in open :
                          \A k \in open : m.milestone_order <= k.milestone_order).title]

\* lines 145-184
PersonalizedGoalContext(goalId, user) ==
    LET rows == GoalQuery(goalId, user) IN
    IF rows = {} THEN NoCtx ELSE GoalContext(CHOOSE g \in rows : TRUE)

\* lines 187-207: the aggregate over the goals of the user and what joins them
ProfileContext(s, user) ==
    LET gs == {g \in GoalsTable : g.user_id = user}
        ms == UNION {MilestonesOf(g) : g \in gs}
    IN [kind |-> "profile",
        total_goals |-> Cardinality(gs),
        active_goals |-> Cardinality({g \in gs : g.status = "active"}),
        completed_goals |-> Cardinality({g \in gs : g.status = "completed"}),
        total_milestones |-> Cardinality(ms),
        completed_milestones |-> Cardinality({m \in ms : m.completed}),
        total_chat_messages |->
            IF gs = {} THEN 0
            ELSE Cardinality({i \in 1..Len(s) : s[i].user_id = user}),
        recent |-> <<>>]

RECURSIVE ByIdDesc(_)
ByIdDesc(S) ==
    IF S = {} THEN <<>>
    ELSE LET g == CHOOSE x \in S : \A y \in S : x.id >= y.id
         IN <<[title |-> g.title, status |-> g.status]>> \o ByIdDesc(S \ {g})

\* lines 210-217 (the goals table has no update here: updated_at follows id)
RecentGoalsQuery(user) ==
    LimitOffset(ByIdDesc({g \in GoalsTable :
                             g.user_id = user /\ g.status \in {"active", "paused"}}),
                RecentGoalsLimit, 0)

\* ---------------------------------------------------- generateAIResponse
UserOf(r) == conn[h[r].conn].userId

\* the timer of request q was armed before that of r: timers are armed as
\* the user inserts resolve (line 61 follows line 45)
ArmedBefore(q, r) ==
    \E i, j \in 1..Len(store) :
        /\ i < j
        /\ store[i].req = q /\ store[i].sender = "user"
        /\ store[j].req = r /\ store[j].sender = "user"

\* the timer of line 61 fires: generateAIResponse issues the chatHistory
\* query.  Timers of the same delay fire in the order they were armed.
TimerFire(r) ==
    /\ ~crashed
    /\ h[r].pc = "timer"
    /\ \A q \in ReqIds \ {r} : ~(h[q].pc = "timer" /\ ArmedBefore(q, r))
    /\ h' = [h EXCEPT ![r].pc = "q_hist"]
    /\ UNCHANGED <<httpVars, conn, rooms, store, nextId, clock, out, side, crashed>>

\* line 129 resolves; the goal query (147) or the stats query (187) is issued
HistQueryDone(r) ==
    /\ ~crashed
    /\ h[r].pc = "q_hist"
    /\ \E rows \in ChatHistoryQuery(store, UserOf(r)) :
         h' = [h EXCEPT ![r].recent = RecentMessages(rows),
                        ![r].pc = IF h[r].goalId # 0 THEN "q_goal" ELSE "q_stats"]
    /\ UNCHANGED <<httpVars, conn, rooms, store, nextId, clock, out, side, crashed>>

\* lines 246-251: ai_typing(true), then the stream is requested
StartStreaming(r, ctx) ==
    /\ h' = [h EXCEPT ![r].ctx = ctx, ![r].pc = "open"]
    /\ out' = Emit(out, h[r].conn, "ai_typing", r, TRUE)

\* line 147 resolves
GoalQueryDone(r) ==
    /\ ~crashed
    /\ h[r].pc = "q_goal"
    /\ StartStreaming(r, PersonalizedGoalContext(h[r].goalId, UserOf(r)))
    /\ UNCHANGED <<httpVars, conn, rooms, store, nextId, clock, side, crashed>>

\* line 187 resolves (one row, always); the recent goals query is issued
StatsQueryDone(r) ==
    /\ ~crashed
    /\ h[r].pc = "q_stats"
    /\ h' = [h EXCEPT ![r].ctx = ProfileContext(store, UserOf(r)), ![r].pc = "q_recent"]
    /\ UNCHANGED <<httpVars, conn, rooms, store, nextId, clock, out, side, crashed>>

\* line 210 resolves
RecentQueryDone(r) ==
    /\ ~crashed
    /\ h[r].pc = "q_recent"
    /\ StartStreaming(r, [h[r].ctx EXCEPT !.recent = RecentGoalsQuery(UserOf(r))])
    /\ UNCHANGED <<httpVars, conn, rooms, store, nextId, clock, side, crashed>>

\* the fullPrompt of line 239, as the information it holds
FullPrompt(r) ==
    [context |-> h[r].ctx, conversation |-> ConversationHistory(h[r].recent),
     user |-> h[r].message]

\* line 251 resolves: the stream is open
OpenDone(r) ==
    /\ ~crashed
    /\ h[r].pc = "open"
    /\ h' = [h EXCEPT ![r].pc = "stream"]
    /\ UNCHANGED <<httpVars, conn, rooms, store, nextId, clock, out, side, crashed>>

ChunkTexts == {<<>>, <<"x">>, <<"y">>}

\* lines 253-263: one chunk; an empty chunk text is skipped
StreamChunk(r, chunkText) ==
    /\ ~crashed
    /\ h[r].pc = "stream"
    /\ h[r].n < MaxChunks
    /\ IF chunkText # <<>>
       THEN /\ h' = [h EXCEPT ![r].full = @ \o chunkText, ![r].n = @ + 1]
            /\ out' = Emit(out, h[r].conn, "ai_message_chunk", r,
                           [content |-> chunkText, isComplete |-> FALSE])
       ELSE /\ h' = [h EXCEPT ![r].n = @ + 1]
            /\ out' = out
    /\ UNCHANGED <<httpVars, conn, rooms, store, nextId, clock, side, crashed>>

\* lines 265-269: the stream is exhausted; ai_typing(false); the insert is issued
StreamEnd(r) ==
    /\ ~crashed
    /\ h[r].pc = "stream"
    /\ h' = [h EXCEPT ![r].pc = "save"]
    /\ out' = Emit(out, h[r].conn, "ai_typing", r, FALSE)
    /\ UNCHANGED <<httpVars, conn, rooms, store, nextId, clock, side, crashed>>

SaveDone_EmitUnsaved(r) ==
    /\ ~crashed
    /\ h[r].pc = "save"
    /\ out' = Emit(out, h[r].conn, "chat_message", r,
                   [id |-> nextId, message |-> h[r].full, sender |-> "ai",
                    timestamp |-> clock])
    /\ h' = [h EXCEPT ![r].pc = "done"]
    /\ UNCHANGED <<httpVars, conn, rooms, store, nextId, clock, side, crashed>>

\* line 269 resolves; lines 275-280 emit the complete message
SaveDone(r) ==
    /\ ~crashed
    /\ h[r].pc = "save"
    /\ \E ts \in Timestamps(r) :
         LET row == NewRow(UserOf(r), h[r].goalId, h[r].full, "ai", ts, r) IN
         /\ store' = Append(store, row)
         /\ nextId' = nextId + 1
         /\ clock' = ts
         /\ out' = Emit(out, h[r].conn, "chat_message", r,
                        ConfirmationOf(row, h[r].full, "ai"))
    /\ h' = [h EXCEPT ![r].pc = "done"]
    /\ UNCHANGED <<httpVars, conn, rooms, side, crashed>>

GenAwaits == {"q_hist", "q_goal", "q_stats", "q_recent", "open", "stream", "save"}

\* any await of the try block rejects (a query, the stream request, the
\* stream itself, the insert): line 282 catches, the fallback insert is issued
GenFail(r) ==
    /\ ~crashed
    /\ h[r].pc \in GenAwaits
    /\ h' = [h EXCEPT ![r].pc = "fb_save", ![r].caught = TRUE]
    /\ UNCHANGED <<httpVars, conn, rooms, store, nextId, clock, out, side, crashed>>

FallbackMessage_Partial(r) == h[r].full

\* line 294: the text the fallback insert stores
FallbackMessage(r) == fallbackResponse

\* line 290 resolves; lines 297-303
FallbackSaveDone(r) ==
    /\ ~crashed
    /\ h[r].pc = "fb_save"
    /\ \E ts \in Timestamps(r) :
         LET row == NewRow(UserOf(r), h[r].goalId, FallbackMessage(r), "ai", ts, r) IN
         /\ store' = Append(store, row)
         /\ nextId' = nextId + 1
         /\ clock' = ts
         /\ out' = Emit(Emit(out, h[r].conn, "ai_typing", r, FALSE),
                        h[r].conn, "chat_message", r,
                        ConfirmationOf(row, FallbackMessage(r), "ai"))
    /\ h' = [h EXCEPT ![r].pc = "done"]
    /\ UNCHANGED <<httpVars, conn, rooms, side, crashed>>

\* line 290 rejects; line 306
FallbackSaveFail(r) ==
    /\ ~crashed
    /\ h[r].pc = "fb_save"
    /\ out' = Emit(out, h[r].conn, "error", r, "Failed to generate response")
    /\ h' = [h EXCEPT ![r].pc = "done"]
    /\ UNCHANGED <<httpVars, conn, rooms, store, nextId, clock, side, crashed>>

\* ---------------------------------------------------------- typing listener
TypingPayloads == {Undef, [t |-> "obj", isTyping |-> TRUE], [t |-> "obj", isTyping |-> FALSE]}

BroadcastTargets_WholeRoom(c) == rooms[conn[c].userId]
BroadcastTargets_Everyone(c) == {d \in Conns : conn[d].st = "Active"} \ {c}

\* socket.to(`user_${socket.userId}`): the sockets of the room, the sender excluded
BroadcastTargets(c) == rooms[conn[c].userId] \ {c}

\* lines 72-77.  No try/catch: reading data.isTyping of an absent payload
\* throws out of the listener, an uncaught exception that ends the process.
Typing(c, data) ==
    /\ Listening(c)
    /\ side < MaxTyping
    /\ side' = side + 1
    /\ IF data.t = "undef"
       THEN /\ crashed' = TRUE
            /\ out' = out
       ELSE /\ crashed' = crashed
            /\ out' = [d \in Conns |->
                         IF d \in BroadcastTargets(c)
                         THEN Append(out[d],
                                     [ev |-> "user_typing", req |-> 0, live |-> TRUE,
                                      p |-> [userId |-> conn[c].userId,
                                             isTyping |-> data.isTyping, from |-> c]])
                         ELSE out[d]]
    /\ UNCHANGED <<httpVars, conn, rooms, store, nextId, clock, h>>

\* ------------------------------------------------ get_chat_history listener
LimitVals == {Undef, Num(-1), Num(0), Num(2), Num(5), Num(10)}
OffsetVals == {Undef, Num(0), Num(1), Num(3)}
HistoryPayloads ==
    {Undef} \cup {[t |-> "obj", goalId |-> g, limit |-> l, offset |-> o] :
                     g \in {0, 1}, l \in LimitVals, o \in OffsetVals}

\* the destructuring defaults of line 82
LimitOf(data) == IF data.limit.t = "undef" THEN Num(DefaultLimit) ELSE data.limit
OffsetOf(data) == IF data.offset.t = "undef" THEN Num(0) ELSE data.offset

\* SELECT id, message, sender, timestamp, goal_id
HistoryColumns(row) ==
    [id |-> row.id, message |-> row.message, sender |-> row.sender,
     timestamp |-> row.timestamp, goal_id |-> row.goal_id]

\* WHERE user_id = $1 [AND goal_id = $2]
HistoryFilter(s, user, goalId) ==
    {i \in 1..Len(s) : s[i].user_id = user /\ (goalId # 0 => s[i].goal_id = goalId)}

Digits == <<"0", "1", "2", "3", "4", "5", "6", "7", "8", "9">>
IsDigit(ch) == \E d \in 1..Len(Digits) : Digits[d] = ch
DigitVal(ch) == (CHOOSE d \in 1..Len(Digits) : Digits[d] = ch) - 1

RECURSIVE ParseDigits(_)
ParseDigits(s) ==
    IF s = <<>> THEN 0
    ELSE 10 * ParseDigits(SubSeq(s, 1, Len(s) - 1)) + DigitVal(s[Len(s)])

\* how the store reads the parameter of LIMIT or OFFSET (a bigint): an
\* integer, NULL (no limit, no offset), or a value it rejects
PgBigint(v) ==
    CASE v.t = "num" -> [k |-> "int", n |-> v.n]
      [] v.t = "null" -> [k |-> "null", n |-> 0]
      [] v.t = "str" ->
           IF v.s # <<>> /\ \A i \in 1..Len(v.s) : IsDigit(v.s[i])
           THEN [k |-> "int", n |-> ParseDigits(v.s)]
           ELSE [k |-> "err", n |-> 0]
      [] OTHER -> [k |-> "err", n |-> 0]

\* lines 89-97: the parameters pushed for the query, as the payload gave them
HistoryParams(c, data) ==
    [user |-> conn[c].userId, goalId |-> data.goalId,
     limit |-> LimitOf(data), offset |-> OffsetOf(data)]

\* lines 84-99: the result sets the store may return; none when it rejects
\* the query (a negative or unreadable LIMIT or OFFSET)
HistoryQuery(s, user, goalId, limit, offset) ==
    LET l == PgBigint(limit)
        o == PgBigint(offset)
    IN IF l.k = "err" \/ o.k = "err" \/ l.n < 0 \/ o.n < 0 THEN {}
       ELSE {LimitOffset(ord, IF l.k = "null" THEN Len(s) ELSE l.n, o.n) :
                ord \in DescOrders(s, HistoryFilter(s, user, goalId))}

\* rows.length === limit
LengthIsLimit(rows, limit) == limit.t = "num" /\ Len(rows) = limit.n

ChatHistoryEvent_NewestFirst(rows, limit) ==
    [messages |-> [i \in 1..Len(rows) |-> HistoryColumns(rows[i])],
     hasMore |-> LengthIsLimit(rows, limit)]

\* lines 101-104
ChatHistoryEvent(rows, limit) ==
    [messages |-> Reverse([i \in 1..Len(rows) |-> HistoryColumns(rows[i])]),
     hasMore |-> LengthIsLimit(rows, limit)]

GetHistory(c, data) ==
    /\ Listening(c)
    /\ side < MaxSide
    /\ side' = side + 1
    /\ IF data.t = "undef"
       THEN out' = Emit(out, c, "error", 0, "Failed to load chat history")
       ELSE LET q == HistoryParams(c, data)
                res == HistoryQuery(store, q.user, q.goalId, q.limit, q.offset) IN
            \/ \E rows \in res :
                  out' = Emit(out, c, "chat_history", 0, ChatHistoryEvent(rows, q.limit))
            \/ out' = Emit(out, c, "error", 0, "Failed to load chat history")
    /\ UNCHANGED <<httpVars, conn, rooms, store, nextId, clock, h, crashed>>

\* ------------------------------------------------- POST /api/auth/register
Emails == {"a@x", "b@x"}

\* req.body: email and password, each present or absent
RegisterBodies == [email : Emails \cup {""}, password : {"", "pw"}]

\* res.status(code).json({error})
ErrorResponse(code, msg) == [NoResponse EXCEPT !.status = code, !.error = msg]

\* the token generateToken signs for a users row
generateToken(user) == ValidToken(user.id)

\* lines 132-143: 201 with the token and the user
Created(user) == [status |-> 201, error |-> "", token |-> generateToken(user), user |-> user]

\* SELECT * FROM users WHERE email = $1
UsersByEmail(email) == {i \in 1..Len(users) : users[i].email = email}

FreeRegs == {q \in RegIds : reg[q].pc = "free"}

\* the request arrives: lines 107-111, then the SELECT of line 114 is issued
Register(body) ==
    /\ ~crashed
    /\ FreeRegs # {}
    /\ LET q == CHOOSE x \in FreeRegs : \A y \in FreeRegs : x <= y IN
       IF body.email = "" \/ body.password = ""
       THEN reg' = [reg EXCEPT ![q] = [pc |-> "done", email |-> body.email,
                        res |-> ErrorResponse(400, "Email and password are required")]]
       ELSE reg' = [reg EXCEPT ![q] = [pc |-> "select", email |-> body.email,
                                       res |-> NoResponse]]
    /\ UNCHANGED <<conn, rooms, store, nextId, clock, h, out, side, crashed,
                   users, usersUnique>>

\* line 114 resolves: 409 when a row has the email, else the hash is started
RegSelectDone(q) ==
    /\ ~crashed
    /\ reg[q].pc = "select"
    /\ IF UsersByEmail(reg[q].email) # {}
       THEN reg' = [reg EXCEPT ![q].pc = "done",
                               ![q].res = ErrorResponse(409, "User already exists")]
       ELSE reg' = [reg EXCEPT ![q].pc = "hash"]
    /\ UNCHANGED <<conn, rooms, store, nextId, clock, h, out, side, crashed,
                   users, usersUnique>>

\* line 124 resolves: the INSERT of line 127 is issued
RegHashDone(q) ==
    /\ ~crashed
    /\ reg[q].pc = "hash"
    /\ reg' = [reg EXCEPT ![q].pc = "insert"]
    /\ UNCHANGED <<conn, rooms, store, nextId, clock, h, out, side, crashed,
                   users, usersUnique>>

\* line 127 settles: the row is made and 201 sent (132-143); under a UNIQUE
\* email the store rejects a second row of the email, caught at 144: 500
RegInsertDone(q) ==
    /\ ~crashed
    /\ reg[q].pc = "insert"
    /\ IF usersUnique /\ UsersByEmail(reg[q].email) # {}
       THEN /\ users' = users
            /\ reg' = [reg EXCEPT ![q].pc = "done",
                                  ![q].res = ErrorResponse(500, "Internal server error")]
       ELSE LET user == [id |-> Len(users) + 1, email |-> reg[q].email] IN
            /\ users' = Append(users, user)
            /\ reg' = [reg EXCEPT ![q].pc = "done", ![q].res = Created(user)]
    /\ UNCHANGED <<conn, rooms, store, nextId, clock, h, out, side, crashed, usersUnique>>

\* the store is unreachable for the SELECT or the INSERT: caught at 144
RegStoreDown(q) ==
    /\ ~crashed
    /\ reg[q].pc \in {"select", "insert"}
    /\ reg' = [reg EXCEPT ![q].pc = "done",
                          ![q].res = ErrorResponse(500, "store unreachable")]
    /\ UNCHANGED <<conn, rooms, store, nextId, clock, h, out, side, crashed,
                   users, usersUnique>>

\* ------------------------------------------------------------ specifications
\* every step a pending handler or generation of request r can take
StepOf(r) ==
    \/ UserInsertDone(r)
    \/ UserInsertFail(r)
    \/ TimerFire(r)
    \/ HistQueryDone(r)
    \/ GoalQueryDone(r)
    \/ StatsQueryDone(r)
    \/ RecentQueryDone(r)
    \/ OpenDone(r)
    \/ \E t \in ChunkTexts : StreamChunk(r, t)
    \/ StreamEnd(r)
    \/ SaveDone(r)
    \/ GenFail(r)
    \/ FallbackSaveDone(r)
    \/ FallbackSaveFail(r)

Steps == \E r \in ReqIds : StepOf(r)

Accepted == Cardinality(ReqIds \ FreeReqs)
AcceptedPayloads == {d \in ChatPayloads : ChatMessageCheck(d) = "accept"}
ValidHandshakes == {hs \in PlainHandshakes : socketAuthMiddleware(hs).ok}

\* Spec: one submission followed through every path of its handler and its
\* generation, on two sockets that connect and disconnect at any time.
Next ==
    \/ \E c \in 1..MaxChatConn, hs \in ValidHandshakes : Connect(c, hs)
    \/ \E c \in 1..MaxChatConn : Disconnect(c)
    \/ \E c \in 1..MaxChatConn, data \in AcceptedPayloads :
          Accepted < MaxSolo /\ ChatMessage(c, data)
    \/ Steps

Spec == Init /\ [][Next]_vars

HistoryProbes ==
    {Undef} \cup {[t |-> "obj", goalId |-> 0, limit |-> l, offset |-> Undef] :
                     l \in {Undef, Num(-1), Num(2)}}

\* SpecInput: one socket, every payload of every event, one submission.
NextInput ==
    \/ \E hs \in PlainHandshakes : Connect(1, hs)
    \/ Disconnect(1)
    \/ \E data \in ChatPayloads :
          (ChatMessageCheck(data) = "accept" => Accepted < MaxSolo) /\ ChatMessage(1, data)
    \/ \E data \in TypingPayloads : Typing(1, data)
    \/ \E data \in HistoryProbes : GetHistory(1, data)
    \/ Steps

SpecInput == Init /\ [][NextInput]_vars

\* FairSpec: SpecInput, and every pending await eventually resolves or
\* rejects and every armed timer eventually fires (the event loop runs
\* them; the store and the generation service answer or fail).
FairSpec == SpecInput /\ \A r \in ReqIds : WF_vars(StepOf(r))

\* SpecAuth: every handshake, on two sockets, and what a socket can do next.
OnePayload == [t |-> "obj", message |-> Str(<<"a">>), goalId |-> 0]

NextAuth ==
    \/ \E c \in 1..MaxChatConn, hs \in Handshakes : Connect(c, hs)
    \/ \E c \in 1..MaxChatConn : Disconnect(c)
    \/ \E c \in 1..MaxChatConn : Accepted < MaxSolo /\ ChatMessage(c, OnePayload)
    \/ \E c \in 1..MaxChatConn, data \in TypingPayloads : Typing(c, data)
    \/ \E c \in 1..MaxChatConn : GetHistory(c, Undef)
    \/ \E r \in ReqIds : UserInsertDone(r) \/ UserInsertFail(r)

SpecAuth == Init /\ [][NextAuth]_vars

\* SpecTyping: sockets of two identities connect, type and disconnect.
NextTyping ==
    \/ \E c \in Conns, hs \in PlainHandshakes : Connect(c, hs)
    \/ \E c \in Conns : Disconnect(c)
    \/ \E c \in Conns, data \in TypingPayloads : Typing(c, data)

SpecTyping == Init /\ [][NextTyping]_vars

\* SpecHistory: the server starts on a store that earlier sessions filled.
SeedKinds == {<<1, 0>>, <<1, 1>>, <<2, 0>>}      \* <<user_id, goal_id>> of a stored turn

\* n turns written by earlier sessions; with `ties` two consecutive inserts
\* share a timestamp
SeedStore(kinds, ties) ==
    [i \in 1..Len(kinds) |->
        [id |-> i, user_id |-> kinds[i][1], goal_id |-> kinds[i][2],
         message |-> <<"a">>, sender |-> IF i % 2 = 1 THEN "user" ELSE "ai",
         timestamp |-> IF ties THEN (i + 1) \div 2 ELSE i, req |-> 0]]

SeedStores ==
    UNION {{SeedStore(k, t) : k \in [1..n -> SeedKinds], t \in BOOLEAN} : n \in 0..MaxSeed}

InitHistory ==
    /\ conn = [c \in Conns |-> IdleConn]
    /\ rooms = [u \in Users |-> {}]
    /\ store \in SeedStores
    /\ nextId = Len(store) + 1
    /\ clock = IF store = <<>> THEN 1 ELSE store[Len(store)].timestamp
    /\ h = [r \in ReqIds |-> FreeH]
    /\ out = [c \in Conns |-> <<>>]
    /\ side = 0
    /\ crashed = FALSE
    /\ HttpIdle
    /\ usersUnique = TRUE

NextHistory ==
    \/ \E hs \in ValidHandshakes : Connect(1, hs)
    \/ Disconnect(1)
    \/ \E data \in HistoryPayloads : GetHistory(1, data)

SpecHistory == InitHistory /\ [][NextHistory]_vars

\* SpecPaging: get_chat_history with a limit or an offset of every kind a
\* client can send, on the stores of SpecHistory.
PagingVals == {Num(-1), Null, Frac, Str(<<"a">>), Str(<<"2">>)}
PagingProbes ==
    {[t |-> "obj", goalId |-> 0, limit |-> l, offset |-> o] :
        l \in PagingVals \cup {Num(2)}, o \in {Undef, Num(1)}}
      \cup {[t |-> "obj", goalId |-> 0, limit |-> l, offset |-> o] :
                l \in {Undef, Num(2)}, o \in PagingVals}

NextPaging ==
    \/ \E hs \in ValidHandshakes : Connect(1, hs)
    \/ Disconnect(1)
    \/ \E data \in PagingProbes : GetHistory(1, data)

SpecPaging == InitHistory /\ [][NextPaging]_vars

\* SpecTwo: one socket of user 1 that stays connected and on which MaxReq
\* submissions arrive, each followed through its handler and its
\* general-chat generation.
UserOneHandshake == [auth |-> ValidToken(1), query |-> NoToken]

StepTwo(r) ==
    \/ UserInsertDone(r)
    \/ UserInsertFail(r)
    \/ TimerFire(r)
    \/ HistQueryDone(r)
    \/ StatsQueryDone(r)
    \/ RecentQueryDone(r)
    \/ OpenDone(r)
    \/ StreamChunk(r, <<"x">>)
    \/ StreamEnd(r)
    \/ SaveDone(r)
    \/ GenFail(r)
    \/ FallbackSaveDone(r)
    \/ FallbackSaveFail(r)

NextTwo ==
    \/ Connect(1, UserOneHandshake)
    \/ ChatMessage(1, OnePayload)
    \/ \E r \in ReqIds : StepTwo(r)

SpecTwo == Init /\ [][NextTwo]_vars

\* SpecClose: socket 1 submits one message and may close at any time while
\* a second socket connects, types and closes.  FairClose adds that every
\* pending await eventually settles and every armed timer eventually fires.
NextClose ==
    \/ \E c \in 1..MaxChatConn, hs \in ValidHandshakes : Connect(c, hs)
    \/ \E c \in 1..MaxChatConn : Disconnect(c)
    \/ Accepted < MaxSolo /\ ChatMessage(1, OnePayload)
    \/ \E c \in 1..MaxChatConn, data \in TypingPayloads : Typing(c, data)
    \/ \E r \in ReqIds : StepTwo(r)

SpecClose == Init /\ [][NextClose]_vars

FairClose == SpecClose /\ \A r \in ReqIds : WF_vars(StepTwo(r))

\* SpecRegister: MaxReg register requests whose handlers interleave at
\* their awaits, on a users table with or without a UNIQUE email.
InitRegister ==
    /\ conn = [c \in Conns |-> IdleConn]
    /\ rooms = [u \in Users |-> {}]
    /\ store = <<>>
    /\ nextId = 1
    /\ clock = 1
    /\ h = [r \in ReqIds |-> FreeH]
    /\ out = [c \in Conns |-> <<>>]
    /\ side = 0
    /\ crashed = FALSE
    /\ HttpIdle
    /\ usersUnique \in BOOLEAN

NextRegister ==
    \/ \E body \in RegisterBodies : Register(body)
    \/ \E q \in RegIds : RegSelectDone(q)
    \/ \E q \in RegIds : RegHashDone(q)
    \/ \E q \in RegIds : RegInsertDone(q)
    \/ \E q \in RegIds : RegStoreDown(q)

SpecRegister == InitRegister /\ [][NextRegister]_vars

\* ================================================================ claims
UserRows(r) == {i \in 1..Len(store) : store[i].req = r /\ store[i].sender = "user"}
AiRows(r) == {i \in 1..Len(store) : store[i].req = r /\ store[i].sender = "ai"}

\* the events of kind ev that request r emitted on socket c, in order
EventsOn(c, r, ev) == SelectSeq(out[c], LAMBDA e : e.req = r /\ e.ev = ev)

UserConfirmations(r) ==
    SelectSeq(EventsOn(h[r].conn, r, "chat_message"), LAMBDA e : e.p.sender = "user")
AiMessages(r) ==
    SelectSeq(EventsOn(h[r].conn, r, "chat_message"), LAMBDA e : e.p.sender = "ai")

NonBlank(data) ==
    /\ data.t = "obj"
    /\ data.message.t = "str"
    /\ \E i \in 1..Len(data.message.s) : data.message.s[i] # " "

C1_StateInv ==
    /\ \A i, j \in 1..Len(store) : store[i].id = store[j].id => i = j
    /\ \A r \in ReqIds : h[r].pc # "free" =>
         LET c == h[r].conn
             conf == UserConfirmations(r)
         IN /\ Cardinality(UserRows(r)) <= 1
            /\ Len(conf) <= 1
            /\ \A d \in Conns \ {c} : \A k \in 1..Len(out[d]) : out[d][k].req # r
            /\ \A i \in UserRows(r) :
                  /\ store[i].user_id = conn[c].userId
                  /\ store[i].message = h[r].message
            /\ Len(conf) = 1 =>
                  \E i \in UserRows(r) :
                     /\ conf[1].p.id = store[i].id
                     /\ conf[1].p.timestamp = store[i].timestamp
                     /\ conf[1].p.message = store[i].message
            /\ h[r].pc \notin {"insert_user", "failed"} =>
                  Cardinality(UserRows(r)) = 1 /\ Len(conf) = 1
            /\ h[r].pc \in {"insert_user", "failed"} => UserRows(r) = {} /\ Len(conf) = 0

C1_Accepts ==
    \A c \in Conns, data \in ChatPayloads :
        (NonBlank(data) /\ ChatMessage(c, data)) =>
            \E r \in ReqIds :
                /\ h[r].pc = "free"
                /\ h'[r].pc = "insert_user"
                /\ h'[r].conn = c
                /\ h'[r].message = data.message.s

\* C1: a chat_message with non-blank text starts one handler; a handler
\* persists at most one user turn, with the userId of its socket, and exactly
\* one once its insert resolved; the confirmation is emitted (to the
\* originating socket only, once) only when that row is in the store, and
\* carries the id and timestamp the store gave the row.
C1_UserTurnPersistedBeforeConfirmation == [](C1_StateInv) /\ [][C1_Accepts]_vars

\* C1 witness: a confirmation was written to a live socket
C1_Witness ==
    \E r \in ReqIds :
        /\ h[r].pc = "timer"
        /\ Len(UserConfirmations(r)) = 1
        /\ UserConfirmations(r)[1].live
        /\ h[r].message = <<" ", "a">>

GenErrors(r) == EventsOn(h[r].conn, r, "error")

\* C2: once the catch of generateAIResponse is entered, the AI turn of that
\* generation, if any, holds the fallback text; an error event is emitted
\* only when the fallback insert failed, then once and with no AI turn
\* stored; the generation ends with exactly one of the two.
C2_FallbackOnGenerationFailure ==
    \A r \in ReqIds : h[r].caught =>
        /\ \A i \in AiRows(r) : store[i].message = fallbackResponse
        /\ Cardinality(AiRows(r)) <= 1
        /\ Len(GenErrors(r)) <= 1
        /\ ~(AiRows(r) # {} /\ Len(GenErrors(r)) > 0)
        /\ h[r].pc = "fb_save" => AiRows(r) = {} /\ Len(GenErrors(r)) = 0
        /\ h[r].pc = "done" =>
              /\ AiRows(r) # {} \/ Len(GenErrors(r)) = 1
              /\ AiRows(r) # {} =>
                    /\ Len(AiMessages(r)) = 1
                    /\ AiMessages(r)[1].p.message = fallbackResponse

\* C2 witness: a stream that failed after a chunk ended with the fallback stored
C2_Witness ==
    \E r \in ReqIds :
        /\ h[r].caught /\ h[r].pc = "done"
        /\ h[r].full # <<>>
        /\ AiRows(r) # {}

RECURSIVE ConcatContents(_)
ConcatContents(evs) ==
    IF evs = <<>> THEN <<>> ELSE Head(evs).p.content \o ConcatContents(Tail(evs))

\* C3: the chunks emitted for a generation, concatenated in emission order,
\* are the text of the AI turn persisted for it.
C3_ChunksConcatEqualsPersisted ==
    \A r \in ReqIds : \A i \in AiRows(r) :
        ConcatContents(EventsOn(h[r].conn, r, "ai_message_chunk")) = store[i].message

\* request r got its answer: the final AI chat_message (generated or
\* fallback) or an error event was emitted on its socket
Answered(r) ==
    /\ h[r].pc # "free"
    /\ \/ Len(GenErrors(r)) > 0
       \/ Len(AiMessages(r)) > 0

SocketClosed(r) == h[r].pc # "free" /\ conn[h[r].conn].st = "Closed"

\* C4: every accepted submission is eventually answered on its socket with
\* the AI message, the fallback message or an error event, unless the
\* socket closed first.
C4_EverySubmissionAnswered ==
    \A r \in ReqIds : (h[r].pc = "insert_user") ~> (Answered(r) \/ SocketClosed(r))

\* what the code does guarantee: an answer, unless the process died first
C4_AnsweredUnlessCrashed ==
    \A r \in ReqIds :
        (h[r].pc = "insert_user") ~> (Answered(r) \/ SocketClosed(r) \/ crashed)

Blank(data) ==
    \/ data.t = "undef"
    \/ data.message.t = "undef"
    \/ data.message.t = "str" /\ \A i \in 1..Len(data.message.s) : data.message.s[i] = " "

ErrorEvent(msg) == [ev |-> "error", req |-> 0, live |-> TRUE, p |-> msg]

C5_Rejects ==
    \A c \in Conns, data \in ChatPayloads :
        (Blank(data) /\ ChatMessage(c, data)) =>
            /\ store' = store /\ nextId' = nextId
            /\ h' = h
            /\ conn' = conn /\ conn[c].st = "Active" /\ rooms' = rooms
            /\ out' = [out EXCEPT ![c] =
                          Append(@, ErrorEvent(IF data.t = "undef"
                                               THEN "Failed to process message"
                                               ELSE "Message cannot be empty"))]

\* C5: a chat_message whose text is absent, empty or only whitespace stores
\* nothing, starts no handler or generation, leaves the socket Active and
\* emits one error event to it (the validation error when the payload is
\* there).
C5_BlankMessageRejected == [][C5_Rejects]_vars

\* C5 witness: a whitespace-only message was rejected while the store is empty
C5_Witness ==
    /\ conn[1].st = "Active"
    /\ store = <<>>
    /\ \A r \in ReqIds : h[r].pc = "free"
    /\ out[1] = <<ErrorEvent("Message cannot be empty")>>

\* a token the Token Authenticator accepts: a JWT signed with the server's
\* secret that has not expired
Authentic(tok) ==
    tok.k = "jwt" /\ tok.wellformed /\ tok.secret = JWT_SECRET /\ ~tok.expired

Presented(c) == IF conn[c].hs.auth.k # "none" THEN conn[c].hs.auth ELSE conn[c].hs.query

\* socket c had an inbound event processed
Processed(c) ==
    \/ out[c] # <<>>
    \/ \E r \in ReqIds : h[r].pc # "free" /\ h[r].conn = c
    \/ \E d \in Conns : \E k \in 1..Len(out[d]) :
          out[d][k].ev = "user_typing" /\ out[d][k].p.from = c

\* C6: a socket is Active (joined to the room of its user, listeners
\* attached) only if the token of its handshake is authentic, and then under
\* the identity of that token; a handshake with an absent, invalid or
\* expired token is rejected with an AUTH_ERROR, joins no room and has no
\* event processed.
C6_ActiveOnlyAfterAuth ==
    \A c \in Conns :
        /\ conn[c].st \in {"Active", "Closed"} =>
              Authentic(Presented(c)) /\ conn[c].userId = Presented(c).userId
        /\ (conn[c].st # "Idle" /\ ~Authentic(Presented(c))) =>
              /\ conn[c].st = "Rejected"
              /\ conn[c].err.type = "AUTH_ERROR"
        /\ conn[c].st \in {"Idle", "Rejected"} => ~Processed(c)
        /\ \A u \in Users : c \in rooms[u] <=> (conn[c].st = "Active" /\ conn[c].userId = u)

\* C6 witness: an expired token was rejected while another socket is served
C6_Witness ==
    \E c, d \in Conns :
        /\ conn[c].st = "Rejected" /\ conn[c].err.message = "Token expired"
        /\ conn[d].st = "Active" /\ Processed(d)

Owns(u, g) == \E goal \in GoalsTable : goal.id = g /\ goal.user_id = u

TitlesOf(u) ==
    {g.title : g \in {x \in GoalsTable : x.user_id = u}}
        \cup {m.title : m \in {x \in MilestonesTable : Owns(u, x.goal_id)}}

C7_StateInv ==
    \A r \in ReqIds : h[r].pc # "free" =>
        LET u == conn[h[r].conn].userId
            ctx == FullPrompt(r).context
        IN /\ (h[r].goalId # 0 /\ ~Owns(u, h[r].goalId)) => ctx.kind = "none"
           /\ ctx.kind = "goal" =>
                 /\ ctx.title \in TitlesOf(u)
                 /\ ctx.next \in TitlesOf(u) \cup {""}
                 /\ \E g \in GoalsTable :
                       g.user_id = u /\ g.id = h[r].goalId /\ g.description = ctx.description
           /\ ctx.kind = "profile" =>
                 \A i \in 1..Len(ctx.recent) : ctx.recent[i].title \in TitlesOf(u)

C7_Proceeds ==
    \A r \in ReqIds :
        (GoalQueryDone(r) /\ ~Owns(conn[h[r].conn].userId, h[r].goalId)) =>
            /\ h'[r].pc = "open" /\ ~h'[r].caught
            /\ h'[r].ctx.kind = "none"
            /\ out'[h[r].conn] = Append(out[h[r].conn], Event(h[r].conn, "ai_typing", r, TRUE))

\* C7: for a goalId that is not a goal of the socket's user the context of
\* the prompt is empty and the generation goes on to request the stream;
\* a context never holds a title or description of another user's goal or
\* milestone.
C7_ForeignGoalContextEmpty == [](C7_StateInv) /\ [][C7_Proceeds]_vars

\* C7 witness: the generation for another user's goal is streaming
C7_Witness ==
    \E r \in ReqIds :
        /\ h[r].pc = "stream" /\ h[r].full # <<>>
        /\ h[r].goalId # 0
        /\ ~Owns(conn[h[r].conn].userId, h[r].goalId)
        /\ h[r].ctx.kind = "none"

TypingTrue == [t |-> "obj", isTyping |-> TRUE]

TypingEvent(c, isTyping) ==
    [ev |-> "user_typing", req |-> 0, live |-> TRUE,
     p |-> [userId |-> conn[c].userId, isTyping |-> isTyping, from |-> c]]

SameIdentityPair(c, d) ==
    /\ c # d
    /\ conn[c].st = "Active" /\ conn[d].st = "Active"
    /\ conn[c].userId = conn[d].userId

C8_Both ==
    \A c, d \in Conns :
        (SameIdentityPair(c, d) /\ Typing(c, TypingTrue)) =>
            /\ out'[d] = Append(out[d], TypingEvent(c, TRUE))
            /\ out'[c] = Append(out[c], TypingEvent(c, TRUE))

\* C8 as stated: when one of two Active sockets of the same identity sends
\* typing with isTyping=true, both sockets receive the user_typing event.
C8_BothReceiveTyping == [][C8_Both]_vars

C8_Other ==
    \A c, d \in Conns :
        (SameIdentityPair(c, d) /\ Typing(c, TypingTrue)) =>
            /\ out'[d] = Append(out[d], TypingEvent(c, TRUE))
            /\ out'[c] = out[c]

\* C8 amended: the other socket of the same identity receives the
\* user_typing event; the sending socket does not.
C8_OtherReceivesTyping == [][C8_Other]_vars

\* C8 witness: of two Active sockets of one identity, one received the
\* typing event of the other
C8_Witness ==
    \E c, d \in Conns :
        /\ SameIdentityPair(c, d)
        /\ out[d] = <<TypingEvent(c, TRUE)>>
        /\ out[c] = <<>>

\* C9: a user_typing event lies only in the log of a socket authenticated
\* under the identity of the socket that typed, and names that identity.
C9_TypingStaysWithinIdentity ==
    \A d \in Conns : \A k \in 1..Len(out[d]) :
        out[d][k].ev = "user_typing" =>
            /\ conn[d].userId = conn[out[d][k].p.from].userId
            /\ out[d][k].p.userId = conn[d].userId
            /\ out[d][k].p.from # d

\* C9 witness: a socket of another identity is Active and received nothing
\* while a typing event was delivered
C9_Witness ==
    \E c, d, e \in Conns :
        /\ SameIdentityPair(c, d)
        /\ out[d] # <<>> /\ out[d][1].ev = "user_typing"
        /\ conn[e].st = "Active" /\ conn[e].userId # conn[c].userId
        /\ out[e] = <<>>

Matching(u, g) ==
    {i \in 1..Len(store) : store[i].user_id = u /\ (g # 0 => store[i].goal_id = g)}

\* msgs is the page (limit lim, offset off, newest first) of the turns of
\* user u (of goal g when g is given), oldest first
IsPage(msgs, u, g, lim, off) ==
    LET M == Matching(u, g)
        D == {i \in M : \E k \in 1..Len(msgs) : msgs[k].id = store[i].id}
        newest == msgs[Len(msgs)].timestamp
    IN /\ \A k \in 1..Len(msgs) : \E i \in M :
             /\ msgs[k].id = store[i].id
             /\ msgs[k].message = store[i].message
             /\ msgs[k].sender = store[i].sender
             /\ msgs[k].timestamp = store[i].timestamp
             /\ msgs[k].goal_id = store[i].goal_id
       /\ \A j, k \in 1..Len(msgs) :
             j < k => msgs[j].timestamp <= msgs[k].timestamp /\ msgs[j].id # msgs[k].id
       /\ Len(msgs) = Min(lim, Max(0, Cardinality(M) - off))
       /\ msgs # <<>> =>
             /\ \A i \in M \ D :
                   \/ store[i].timestamp >= newest
                   \/ store[i].timestamp <= msgs[1].timestamp
             /\ Cardinality({i \in M \ D : store[i].timestamp > newest}) <= off
             /\ Cardinality({i \in M \ D : store[i].timestamp >= newest}) >= off

C10_Delivers ==
    \A c \in Conns, data \in HistoryPayloads :
        (/\ data.t = "obj" /\ data.limit.t = "num" /\ data.offset.t = "num"
         /\ data.limit.n >= 0 /\ data.offset.n >= 0
         /\ GetHistory(c, data)
         /\ out'[c][Len(out'[c])].ev = "chat_history") =>
            LET e == out'[c][Len(out'[c])] IN
            /\ IsPage(e.p.messages, conn[c].userId, data.goalId, data.limit.n, data.offset.n)
            /\ e.p.hasMore = (Len(e.p.messages) = data.limit.n)
            /\ store' = store

\* C10: get_chat_history with a limit and an offset delivers turns of the
\* caller only (of the goal when one is given): the page that limit and
\* offset select newest first, in ascending timestamp order, with hasMore
\* true exactly when as many turns as limit are delivered.
C10_HistoryPage == [][C10_Delivers]_vars

\* C10 witness: of the 5 turns of the caller the 2 newest were delivered,
\* oldest first, with hasMore
C10_Witness ==
    /\ conn[1].st = "Active"
    /\ Cardinality(Matching(conn[1].userId, 0)) = 5
    /\ Len(out[1]) = 1 /\ out[1][1].ev = "chat_history"
    /\ Len(out[1][1].p.messages) = 2
    /\ out[1][1].p.hasMore
    /\ out[1][1].p.messages[1].timestamp < out[1][1].p.messages[2].timestamp

NonNegInt(v) == v.t = "num" /\ v.n >= 0

\* a limit or an offset was given and is not a non-negative integer
BadPaging(data) ==
    \/ data.limit.t # "undef" /\ ~NonNegInt(data.limit)
    \/ data.offset.t # "undef" /\ ~NonNegInt(data.offset)

C11_Validates ==
    \A c \in Conns, data \in PagingProbes :
        (BadPaging(data) /\ GetHistory(c, data)) =>
            LET q == HistoryParams(c, data)
                e == out'[c][Len(out'[c])]
            IN /\ conn'[c].st = "Active"
               /\ \/ e.ev = "error"
                  \/ /\ e.ev = "chat_history"
                     /\ \E lim \in 0..DefaultLimit, off \in 0..Len(store) :
                           /\ IsPage(e.p.messages, q.user, q.goalId, lim, off)
                           /\ e.p.hasMore = (Len(e.p.messages) = lim)
               /\ NonNegInt(q.limit) /\ NonNegInt(q.offset)

\* C11: a get_chat_history whose limit or offset is not a non-negative
\* integer leaves the socket Active and is answered with an error event or
\* with the page of some valid limit and offset (hasMore included), and the
\* limit and offset that reach the storage query are non-negative integers.
C11_PagingValidated == [][C11_Validates]_vars

\* the same without the requirement on what reaches the store: the answer
\* alone already tells that limit "2" was not read as the integer 2
C11_AnswerOfValidPaging ==
    [][\A c \in Conns, data \in PagingProbes :
          (BadPaging(data) /\ GetHistory(c, data)) =>
              LET q == HistoryParams(c, data)
                  e == out'[c][Len(out'[c])]
              IN \/ e.ev = "error"
                 \/ \E lim \in 0..DefaultLimit, off \in 0..Len(store) :
                       /\ IsPage(e.p.messages, q.user, q.goalId, lim, off)
                       /\ e.p.hasMore = (Len(e.p.messages) = lim)]_vars

\* the positions in the log of socket c of the user confirmations of request r
ConfirmedAt(c, r) ==
    {k \in 1..Len(out[c]) :
        out[c][k].ev = "chat_message" /\ out[c][k].req = r /\ out[c][k].p.sender = "user"}

\* C12: of two chat_message events of one socket (requests are numbered in
\* arrival order) the earlier one has its user turn persisted, with the lower
\* id and no later timestamp, and confirmed, before the later one.
C12_ArrivalOrderPersisted ==
    \A a, b \in ReqIds :
        (a < b /\ h[a].pc # "free" /\ h[b].pc # "free" /\ h[a].conn = h[b].conn) =>
            /\ \A j \in UserRows(b) :
                  h[a].pc # "failed" =>
                      \E i \in UserRows(a) :
                          /\ i < j
                          /\ store[i].id < store[j].id
                          /\ store[i].timestamp <= store[j].timestamp
            /\ \A k \in ConfirmedAt(h[b].conn, b) :
                  h[a].pc # "failed" => \E m \in ConfirmedAt(h[a].conn, a) : m < k

\* the ai_typing(true) events of request r: one per generation that got as
\* far as requesting the stream
StartedTyping(r) == SelectSeq(EventsOn(h[r].conn, r, "ai_typing"), LAMBDA e : e.p = TRUE)

GenerationPcs == GenAwaits \cup {"fb_save", "done"}

C13_StateInv ==
    /\ \A i \in 1..Len(store) :
          store[i].sender = "ai" => store[i].req \in ReqIds /\ h[store[i].req].pc # "free"
    /\ \A r \in ReqIds : h[r].pc # "free" =>
          /\ Cardinality(AiRows(r)) <= 1
          /\ Len(StartedTyping(r)) <= 1
          /\ Len(AiMessages(r)) <= 1
          /\ \A i \in AiRows(r) : \E j \in UserRows(r) : j < i
          /\ h[r].pc \in GenerationPcs => Cardinality(UserRows(r)) = 1
          /\ h[r].pc \in {"insert_user", "failed", "timer"} =>
                /\ AiRows(r) = {}
                /\ EventsOn(h[r].conn, r, "ai_typing") = <<>>
                /\ EventsOn(h[r].conn, r, "ai_message_chunk") = <<>>
                /\ AiMessages(r) = <<>>

C13_Step ==
    /\ \A c \in Conns, data \in ChatPayloads :
          (~NonBlank(data) /\ ChatMessage(c, data)) => h' = h /\ store' = store
    /\ \A r \in ReqIds :
          /\ (h'[r].pc = "q_hist" /\ h[r].pc # "q_hist") => h[r].pc = "timer"
          /\ (h'[r].pc = "timer" /\ h[r].pc # "timer") =>
                h[r].pc = "insert_user" /\ Cardinality(UserRows(r))' = 1
          /\ h[r].pc \in {"failed", "done"} => h'[r] = h[r]

\* C13: a generation exists only for a handler whose user turn is stored
\* (none for a rejected message, none after a failed insert); it is started
\* once, by the timer that the successful insert armed, stores at most one
\* AI turn (the generated text or the fallback) and emits at most one final
\* AI message; a finished or failed handler does nothing more.
C13_AtMostOneGeneration == [](C13_StateInv) /\ [][C13_Step]_vars

\* C13 witness: a generation ended with its single AI turn after a blank
\* message had been rejected
C13_Witness ==
    \E r \in ReqIds :
        /\ h[r].pc = "done"
        /\ Cardinality(AiRows(r)) = 1 /\ Cardinality(UserRows(r)) = 1
        /\ Len(StartedTyping(r)) = 1
        /\ \E k \in 1..Len(out[h[r].conn]) :
              out[h[r].conn][k].ev = "error" /\ out[h[r].conn][k].req = 0

TurnsOf(u) == {i \in 1..Len(store) : store[i].user_id = u}

\* conv renders, oldest first, the Min(10, n) most recent of the n turns of
\* user u, whatever their goal
IsMemory(conv, u) ==
    /\ Len(conv) = Min(HistoryLimit, Cardinality(TurnsOf(u)))
    /\ \E f \in [1..Len(conv) -> TurnsOf(u)] :
          /\ \A j, k \in 1..Len(conv) :
                j < k => f[j] # f[k] /\ store[f[j]].timestamp <= store[f[k]].timestamp
          /\ \A k \in 1..Len(conv) :
                /\ conv[k].content = store[f[k]].message
                /\ conv[k].label = IF store[f[k]].sender = "user" THEN "User" ELSE "Assistant"
          /\ \A i \in TurnsOf(u) :
                (\A k \in 1..Len(conv) : f[k] # i) =>
                    \A k \in 1..Len(conv) : store[i].timestamp <= store[f[k]].timestamp

C14_Renders ==
    \A r \in ReqIds :
        HistQueryDone(r) => IsMemory(ConversationHistory(h'[r].recent), UserOf(r))

\* C14: the conversation a generation puts into its prompt is the most
\* recent turns of the user at the time of the chatHistory query, at most 10,
\* of any goal, in ascending timestamp order.
C14_MemoryOldestFirst == [][C14_Renders]_vars

\* what the code renders: the same turns, newest first
C14_MemoryNewestFirst ==
    [][\A r \in ReqIds :
          HistQueryDone(r) =>
              IsMemory(Reverse(ConversationHistory(h'[r].recent)), UserOf(r))]_vars

\* everything request r emitted on its socket, in order, as <<event, payload>>
EmittedBy(r) ==
    LET evs == SelectSeq(out[h[r].conn], LAMBDA e : e.req = r)
    IN [k \in 1..Len(evs) |-> <<evs[k].ev, evs[k].p>>]

IsChunkRun(seq) ==
    \A k \in 1..Len(seq) :
        /\ seq[k][1] = "ai_message_chunk"
        /\ seq[k][2].isComplete = FALSE
        /\ seq[k][2].content # <<>>

RECURSIVE ConcatChunks(_)
ConcatChunks(seq) ==
    IF seq = <<>> THEN <<>> ELSE Head(seq)[2].content \o ConcatChunks(Tail(seq))

\* C15: a generation that has not failed has emitted, after the user
\* confirmation: nothing before the stream is requested; then ai_typing(true)
\* followed by the chunks produced so far, in production order, each with
\* isComplete=false; after the stream ended ai_typing(false), with no AI turn
\* stored yet; and once finished the final AI chat_message carrying the id,
\* timestamp and text of the stored AI turn, with nothing after it.
C15_SuccessPathOrder ==
    \A r \in ReqIds : (h[r].pc \notin {"free", "insert_user", "failed"} /\ ~h[r].caught) =>
        LET evs == EmittedBy(r)
            n == Len(evs)
            pc == h[r].pc
            stop == IF pc \in {"save", "done"} THEN 1 ELSE 0
            fin == IF pc = "done" THEN 1 ELSE 0
            chunks == SubSeq(evs, 3, n - stop - fin)
        IN /\ n >= 1
           /\ evs[1][1] = "chat_message" /\ evs[1][2].sender = "user"
           /\ pc \in {"timer", "q_hist", "q_goal", "q_stats", "q_recent"} => n = 1
           /\ pc \in {"open", "stream", "save", "done"} =>
                 /\ n >= 2 + stop + fin
                 /\ evs[2] = <<"ai_typing", TRUE>>
                 /\ IsChunkRun(chunks)
                 /\ ConcatChunks(chunks) = h[r].full
           /\ pc = "open" => n = 2
           /\ pc \in {"save", "done"} => evs[n - fin] = <<"ai_typing", FALSE>>
           /\ pc # "done" => AiRows(r) = {}
           /\ pc = "done" =>
                 /\ evs[n][1] = "chat_message" /\ evs[n][2].sender = "ai"
                 /\ \E i \in AiRows(r) :
                       /\ evs[n][2].id = store[i].id
                       /\ evs[n][2].timestamp = store[i].timestamp
                       /\ evs[n][2].message = store[i].message
                       /\ store[i].message = ConcatChunks(chunks)

\* C15 witness: a generation of two chunks finished on a live socket
C15_Witness ==
    \E r \in ReqIds :
        /\ h[r].pc = "done" /\ ~h[r].caught
        /\ h[r].full = <<"x", "y">>
        /\ Len(EmittedBy(r)) = 6
        /\ out[h[r].conn][Len(out[h[r].conn])].live

\* request r emitted ai_typing(false) after its ai_typing(true)
TypingStopped(r) ==
    LET o == out[h[r].conn] IN
    \E j, k \in 1..Len(o) :
        /\ j < k
        /\ o[j].req = r /\ o[j].ev = "ai_typing" /\ o[j].p = TRUE
        /\ o[k].req = r /\ o[k].ev = "ai_typing" /\ o[k].p = FALSE

\* C16: a generation that emitted ai_typing(true) has emitted
\* ai_typing(false) by the time it ends, whichever way it ends, and on the
\* failure path by the time the catch goes on to persist the fallback.
C16_TypingAlwaysStopped ==
    \A r \in ReqIds : (h[r].pc # "free" /\ Len(StartedTyping(r)) > 0) =>
        /\ h[r].pc = "done" => TypingStopped(r)
        /\ h[r].caught => TypingStopped(r)

\* the part of it that the code keeps: a generation that ended with an AI
\* turn (generated or fallback) stopped the indicator
C16_StoppedWhenAnswered ==
    \A r \in ReqIds :
        (h[r].pc = "done" /\ Len(StartedTyping(r)) > 0 /\ AiRows(r) # {}) => TypingStopped(r)

\* the fallback insert failed: the generation ended with the indicator on
C16_NeverStopped ==
    \E r \in ReqIds :
        /\ h[r].pc = "done" /\ Len(StartedTyping(r)) > 0
        /\ Len(GenErrors(r)) = 1
        /\ ~TypingStopped(r)

C17_StateInv ==
    \A r \in ReqIds : h[r].pc = "failed" =>
        /\ UserRows(r) = {} /\ AiRows(r) = {}
        /\ EmittedBy(r) = <<(<<"error", "Failed to process message">>)>>
        /\ \A d \in Conns \ {h[r].conn} : \A k \in 1..Len(out[d]) : out[d][k].req # r

C17_Step ==
    \A r \in ReqIds :
        /\ UserInsertFail(r) =>
              /\ store' = store
              /\ conn' = conn /\ rooms' = rooms /\ crashed' = crashed
              /\ h'[r].pc = "failed"
              /\ \A q \in ReqIds \ {r} : h'[q] = h[q]
        /\ h[r].pc = "failed" => h'[r] = h[r]

\* C17: when the insert of the user turn fails the store, the sockets and
\* the other handlers are left as they were, the handler emits exactly one
\* error event, to its own socket, and nothing else (no confirmation, no
\* generation event), and does nothing afterwards (no retry, no timer).
C17_UserInsertFailure == [](C17_StateInv) /\ [][C17_Step]_vars

\* C17 witness: after the failure the socket, still Active, had a
\* get_chat_history answered
C17_Witness ==
    \E r \in ReqIds :
        /\ h[r].pc = "failed"
        /\ conn[h[r].conn].st = "Active"
        /\ Len(out[h[r].conn]) = 2
        /\ out[h[r].conn][1].req = r /\ out[h[r].conn][1].live
        /\ out[h[r].conn][2].ev = "chat_history"
        /\ store = <<>>

\* the step appended exactly one event to the log of socket c, an error event
ErrorAppended(c) ==
    /\ Len(out'[c]) = Len(out[c]) + 1
    /\ SubSeq(out'[c], 1, Len(out[c])) = out[c]
    /\ out'[c][Len(out'[c])].ev = "error"

C18_Step ==
    /\ \A c \in Conns :
          /\ ChatMessage(c, Undef) => ErrorAppended(c)
          /\ GetHistory(c, Undef) => ErrorAppended(c)
          /\ Typing(c, Undef) => ErrorAppended(c)
    /\ \A r \in ReqIds :
          /\ UserInsertFail(r) => ErrorAppended(h[r].conn)
          /\ FallbackSaveFail(r) => ErrorAppended(h[r].conn)

\* C18: no exception leaves a listener (the process keeps running), and an
\* event with an absent payload, a failed insert of the user turn and a
\* failed fallback insert each put an error event on the socket concerned.
C18_NoFailureEscapes == [](~crashed) /\ [][C18_Step]_vars

\* the same for the listeners that have a try/catch (chat_message,
\* get_chat_history) and for generateAIResponse
C18_CaughtWhereGuarded ==
    [][/\ \A c \in Conns :
             /\ ChatMessage(c, Undef) => ErrorAppended(c) /\ ~crashed'
             /\ GetHistory(c, Undef) => ErrorAppended(c) /\ ~crashed'
       /\ \A r \in ReqIds :
             /\ UserInsertFail(r) => ErrorAppended(h[r].conn) /\ ~crashed'
             /\ FallbackSaveFail(r) => ErrorAppended(h[r].conn) /\ ~crashed'
             /\ GenFail(r) => ~crashed']_vars

\* the generation of request r is armed or running
GenPending(r) == h[r].pc \in {"timer", "fb_save"} \cup GenAwaits

\* the generation of r ended, with one AI turn or, the fallback insert
\* having failed, with the error event and no AI turn
Completed(r) ==
    /\ h[r].pc = "done"
    /\ \/ Cardinality(AiRows(r)) = 1
       \/ AiRows(r) = {} /\ Len(GenErrors(r)) = 1

C19_StateInv ==
    \A r \in ReqIds : \A i \in AiRows(r) :
        /\ h[r].pc = "done"
        /\ Cardinality(AiRows(r)) = 1
        /\ IF h[r].caught THEN store[i].message = fallbackResponse
           ELSE store[i].message = h[r].full /\ h[r].n <= MaxChunks

C19_Step ==
    \A c \in Conns : conn[c].st = "Closed" =>
        /\ conn'[c].st = "Closed"
        /\ ~ \E data \in ChatPayloads : ChatMessage(c, data)
        /\ ~ \E data \in TypingPayloads : Typing(c, data)
        /\ ~ \E data \in HistoryPayloads : GetHistory(c, data)

\* C19: a generation that is armed or running when its socket is Closed
\* still ends, having persisted one AI turn (or, when the fallback insert
\* failed as well, none and the error event); an AI turn holds the whole
\* text of the ended stream or the fallback, never a part of the stream; a
\* Closed socket stays Closed and has no further event processed.
C19_GenerationSurvivesDisconnect ==
    /\ \A r \in ReqIds : (SocketClosed(r) /\ GenPending(r)) ~> Completed(r)
    /\ [](C19_StateInv)
    /\ [][C19_Step]_vars

\* what the code does guarantee: the same, unless the process died first
C19_SurvivesUnlessCrashed ==
    /\ \A r \in ReqIds : (SocketClosed(r) /\ GenPending(r)) ~> (Completed(r) \/ crashed)
    /\ [](C19_StateInv)
    /\ [][C19_Step]_vars

\* the generation of request r has requested its stream and not yet ended it
Streaming(r) == h[r].pc \in {"open", "stream"}

\* the requests whose ai_message_chunk events lie in the log of socket c, in order
ChunkOwners(c) ==
    LET ch == SelectSeq(out[c], LAMBDA e : e.ev = "ai_message_chunk")
    IN [k \in 1..Len(ch) |-> ch[k].req]

\* C20: on one socket never two generations are streaming at once, the
\* chunks of one generation are not interrupted by chunks of another, and
\* the AI turns are stored in the arrival order of the messages they answer.
C20_OneGenerationStreaming ==
    \A a, b \in ReqIds :
        (a < b /\ h[a].pc # "free" /\ h[b].pc # "free" /\ h[a].conn = h[b].conn) =>
            /\ ~(Streaming(a) /\ Streaming(b))
            /\ LET own == ChunkOwners(h[a].conn) IN
               \A i, j, k \in 1..Len(own) :
                   (i < j /\ j < k /\ own[i] = own[k]) => own[j] = own[i]
            /\ \A i \in AiRows(a), j \in AiRows(b) : i < j

\* chunks of two generations alternate in the log of one socket
C20_Interleaved ==
    \E c \in Conns : \E i, j, k \in 1..Len(ChunkOwners(c)) :
        /\ i < j /\ j < k
        /\ ChunkOwners(c)[i] = ChunkOwners(c)[k]
        /\ ChunkOwners(c)[j] # ChunkOwners(c)[i]

C21_StateInv ==
    \A i \in 1..Len(store) :
        /\ store[i].req \in ReqIds /\ h[store[i].req].pc # "free"
        /\ LET c == h[store[i].req].conn IN
           /\ Authentic(Presented(c))
           /\ store[i].user_id = Presented(c).userId

C21_Step ==
    /\ Len(store') \in {Len(store), Len(store) + 1}
    /\ SubSeq(store', 1, Len(store)) = store
    /\ \A c \in Conns :
          /\ \A data \in TypingPayloads : Typing(c, data) => store' = store
          /\ \A data \in HistoryProbes : GetHistory(c, data) => store' = store
          /\ \A data \in ChatPayloads : ChatMessage(c, data) => store' = store
    /\ Len(store') = Len(store) + 1 =>
          LET row == store'[Len(store')] IN
          /\ \A i \in 1..Len(store) : store[i].id # row.id
          /\ \E r \in ReqIds :
                /\ row.req = r
                /\ row.user_id = Presented(h[r].conn).userId
                /\ \/ row.sender = "user" /\ UserInsertDone(r)
                   \/ row.sender = "ai" /\ (SaveDone(r) \/ FallbackSaveDone(r))

\* C21: every step leaves the stored turns as they are and adds at most one
\* at the end; typing, get_chat_history and the synchronous part of
\* chat_message add none; a turn is added only by the insert of a handler or
\* of its generation, and carries the userId of the token that the socket of
\* that handler presented at its handshake.
C21_StoreAppendOnly == [](C21_StateInv) /\ [][C21_Step]_vars

\* C21 witness: the user turn and the AI turn of user 2 are stored and a
\* get_chat_history was answered
C21_Witness ==
    /\ Len(store) = 2
    /\ store[1].user_id = 2 /\ store[2].user_id = 2
    /\ store[1].sender = "user" /\ store[2].sender = "ai"
    /\ \E k \in 1..Len(out[1]) : out[1][k].ev = "chat_history"

\* the register requests for email e that were answered with status code
AnsweredWith(e, code) ==
    {q \in RegIds : reg[q].pc = "done" /\ reg[q].email = e /\ reg[q].res.status = code}

\* the request was answered 500 because the store could not be reached
StoreWasDown(q) == reg[q].res.status = 500 /\ reg[q].res.error = "store unreachable"

\* C22: a register request with email and password is answered 201, with a
\* token of the new user, or 409, unless the store was unreachable; of the
\* requests for one email at most one is answered 201, one is when another
\* was answered 409, and as many users hold the email as requests were
\* answered 201: at most one.
C22_RegisterOncePerEmail ==
    /\ \A i, j \in 1..Len(users) : users[i].email = users[j].email => i = j
    /\ \A e \in Emails :
          /\ Cardinality(AnsweredWith(e, 201)) <= 1
          /\ Cardinality(UsersByEmail(e)) = Cardinality(AnsweredWith(e, 201))
          /\ AnsweredWith(e, 409) # {} => Cardinality(AnsweredWith(e, 201)) = 1
    /\ \A q \in RegIds : (reg[q].pc = "done" /\ reg[q].res.status # 400) =>
          /\ reg[q].res.status \in {201, 409} \/ StoreWasDown(q)
          /\ reg[q].res.status = 201 =>
                /\ reg[q].res.user.email = reg[q].email
                /\ \E i \in UsersByEmail(reg[q].email) : users[i] = reg[q].res.user
                /\ Authentic(reg[q].res.token)
                /\ reg[q].res.token.userId = reg[q].res.user.id

\* what the handler does by itself: a request whose SELECT finds the email
\* is answered 409 and creates no user, one that is alone with its email is
\* answered 201 with its user
C22_TakenAtSelect ==
    [][\A q \in RegIds :
          /\ (RegSelectDone(q) /\ UsersByEmail(reg[q].email) # {}) =>
                reg'[q].res.status = 409 /\ users' = users
          /\ (RegInsertDone(q) /\ UsersByEmail(reg[q].email) = {}) =>
                /\ reg'[q].res.status = 201
                /\ users' = Append(users, reg'[q].res.user)
                /\ reg'[q].res.user.email = reg[q].email]_vars

\* two users hold one email, both requests answered 201
C22_Duplicate ==
    \E e \in Emails :
        Cardinality(UsersByEmail(e)) = 2 /\ Cardinality(AnsweredWith(e, 201)) = 2

\* under a UNIQUE email the later of two racing requests is answered 500
C22_LoserGets500 ==
    \E q \in RegIds :
        /\ usersUnique
        /\ reg[q].pc = "done" /\ reg[q].res.status = 500 /\ ~StoreWasDown(q)
        /\ Cardinality(UsersByEmail(reg[q].email)) = 1

====
